---- MODULE Spec2Model ----
(***************************************************************************)
(* State-vector simulator and random-circuit-sampling benchmark of         *)
(* src/src/lib.rs (QuantumSimulator, generate_cz_pairs,                     *)
(* run_rcs_with_samples, run_benchmark).                                    *)
(*                                                                         *)
(* Numbers.  Every f64 the program computes from the constants 0.5,        *)
(* 1/sqrt(2), cos(pi/4), sin(pi/4) by +, -, * and by a division by a        *)
(* sample count lies in the field Q(sqrt 2).  An f64 is modelled by its    *)
(* exact value <<p, q, den>> = (p + q*sqrt(2)) / den, den > 0, in lowest   *)
(* terms; den = 0 is NaN, the result of 0.0 / 0.0.  Rounding error of the  *)
(* order of 1e-16 is therefore not part of the model: "equal" below is     *)
(* what the spec calls equal within 1e-9.  A Complex64 is a record         *)
(* [re, im] of two such numbers.                                           *)
(***************************************************************************)
EXTENDS Integers, Sequences, FiniteSets, TLC

\* ------------------------------------------------------------------ bounds

\* Largest qubit count of a simulator used through the library interface.
MaxQubits == 2
\* Largest number of gate applications on one simulator object.
MaxOps == 3
\* Largest circuit depth of a benchmark run.
MaxDepth == 2
\* Largest sample count of a benchmark run.
MaxSamples == 2
\* The uniform draw r of measure() ranges over k / DrawGrid, 0 <= k < DrawGrid.
DrawGrid == 2
\* Largest qubit count handed to generate_cz_pairs on its own.
MaxGenQubits == 6
\* Largest number of consecutive layers generate_cz_pairs is called for.
MaxGenLayers == 3
\* Seeds handed to with_seed.
MaxSeed == 1

\* ------------------------------------------------------------- f64 values

Abs(x) == IF x < 0 THEN -x ELSE x

RECURSIVE GCD(_, _)
GCD(a, b) == IF b = 0 THEN a ELSE GCD(b, a % b)

NaN == <<0, 0, 0>>

IsNaN(x) == x[3] = 0

\* (p + q*sqrt 2) / den in lowest terms, den > 0.
Reduce(p, q, den) ==
    LET g == GCD(GCD(Abs(p), Abs(q)), den)
    IN  <<p \div g, q \div g, den \div g>>

F(n) == <<n, 0, 1>>

Half == <<1, 0, 2>>

\* std::f64::consts::FRAC_1_SQRT_2, and (PI / 4.0).cos(), (PI / 4.0).sin()
FRAC_1_SQRT_2 == <<0, 1, 2>>

CosQuarterPi == <<0, 1, 2>>

SinQuarterPi == <<0, 1, 2>>

FAdd(x, y) ==
    IF IsNaN(x) \/ IsNaN(y) THEN NaN
    ELSE Reduce(x[1] * y[3] + y[1] * x[3], x[2] * y[3] + y[2] * x[3], x[3] * y[3])

FNeg(x) == IF IsNaN(x) THEN NaN ELSE <<-x[1], -x[2], x[3]>>

FSub(x, y) == FAdd(x, FNeg(y))

FMul(x, y) ==
    IF IsNaN(x) \/ IsNaN(y) THEN NaN
    ELSE Reduce(x[1] * y[1] + 2 * x[2] * y[2], x[1] * y[2] + x[2] * y[1], x[3] * y[3])

\* Sign of p + q*sqrt 2.
SignOf(p, q) ==
    IF p >= 0 /\ q >= 0 THEN (IF p = 0 /\ q = 0 THEN 0 ELSE 1)
    ELSE IF p <= 0 /\ q <= 0 THEN -1
    ELSE IF p > 0 THEN (IF p * p > 2 * q * q THEN 1 ELSE -1)
    ELSE (IF 2 * q * q > p * p THEN 1 ELSE -1)

\* x < y on f64: false when either side is NaN.
FLess(x, y) ==
    /\ ~IsNaN(x)
    /\ ~IsNaN(y)
    /\ SignOf(y[1] * x[3] - x[1] * y[3], y[2] * x[3] - x[2] * y[3]) = 1

\* x / (n as f64) for a count n: 0.0 / 0.0 is NaN.  A run divides the sum of
\* an empty sample list, 0.0, when n is 0, so x / 0.0 with x # 0 does not occur.
FDivCount(x, n) ==
    IF IsNaN(x) \/ n = 0 THEN NaN
    ELSE Reduce(x[1], x[2], x[3] * n)

\* f64::clamp(lo, hi): NaN stays NaN.
FClamp(x, lo, hi) ==
    IF IsNaN(x) THEN NaN
    ELSE IF FLess(x, lo) THEN lo
    ELSE IF FLess(hi, x) THEN hi
    ELSE x

\* ------------------------------------------------------------- Complex64

C64(re, im) == [re |-> re, im |-> im]

CZero == C64(F(0), F(0))

COne == C64(F(1), F(0))

CAdd(x, y) == C64(FAdd(x.re, y.re), FAdd(x.im, y.im))

CSub(x, y) == C64(FSub(x.re, y.re), FSub(x.im, y.im))

CNeg(x) == C64(FNeg(x.re), FNeg(x.im))

CMul(x, y) ==
    C64(FSub(FMul(x.re, y.re), FMul(x.im, y.im)),
        FAdd(FMul(x.re, y.im), FMul(x.im, y.re)))

norm_sqr(x) == FAdd(FMul(x.re, x.re), FMul(x.im, x.im))

\* ------------------------------------------------------------ ChaCha8Rng

\* ChaCha8Rng::from_entropy(): the seed comes from the operating system, so
\* every draw may yield any value of its range.
EntropyRng == [kind |-> "entropy", seed |-> 0, pos |-> 0]

\* ChaCha8Rng::seed_from_u64(seed): a fixed stream, read at position pos.
SeededRng(seed) == [kind |-> "seeded", seed |-> seed, pos |-> 0]

\* The word a seeded stream yields at a position: a fixed function of both.
Stream(seed, pos) ==
    (7 * seed * seed + 11 * pos * pos + 13 * seed * pos + 5 * pos + 3 * seed + 1) % 60

\* The stream after one draw.
Advance(rng) ==
    IF rng.kind = "seeded" THEN [rng EXCEPT !.pos = @ + 1] ELSE rng

\* rng.gen_range(lo..hi): the values the draw can yield.
gen_range(rng, lo, hi) ==
    IF rng.kind = "seeded"
    THEN {lo + (Stream(rng.seed, rng.pos) % (hi - lo))}
    ELSE lo .. (hi - 1)

\* rng.gen::<f64>(): a uniform draw in [0, 1), on the grid k / DrawGrid.
gen_f64(rng) ==
    IF rng.kind = "seeded"
    THEN {Reduce(Stream(rng.seed, rng.pos) % DrawGrid, 0, DrawGrid)}
    ELSE {Reduce(k, 0, DrawGrid) : k \in 0 .. (DrawGrid - 1)}

\* ------------------------------------------------------ QuantumSimulator

Shl(q) == 2 ^ q

\* (i >> qubit) & 1
BitOf(i, qubit) == (i \div Shl(qubit)) % 2

\* The |0...0> vector of DVector::zeros(dim) with state[0] = 1.
ZeroState(dim) == [i \in 0 .. (dim - 1) |-> IF i = 0 THEN COne ELSE CZero]

\* QuantumSimulator::new
new(n_qubits) ==
    [live |-> TRUE, n_qubits |-> n_qubits,
     state |-> ZeroState(Shl(n_qubits)), rng |-> EntropyRng]

\* QuantumSimulator::with_seed
with_seed(n_qubits, seed) ==
    [live |-> TRUE, n_qubits |-> n_qubits,
     state |-> ZeroState(Shl(n_qubits)), rng |-> SeededRng(seed)]

\* No simulator has been constructed yet.
NoSim ==
    [live |-> FALSE, n_qubits |-> 0,
     state |-> [i \in {} |-> CZero], rng |-> EntropyRng]

\* reset without the fill: only state[0] is written.
reset_no_fill(self) == [self EXCEPT !.state = [self.state EXCEPT ![0] = COne]]

\* QuantumSimulator::reset
reset(self) ==
    [self EXCEPT !.state =
        [[i \in DOMAIN self.state |-> CZero] EXCEPT ![0] = COne]]

\* The pair update with the factor 0.5 in place of FRAC_1_SQRT_2.
hadamard_pair_half(a, b) ==
    <<CMul(C64(Half, F(0)), CAdd(a, b)), CMul(C64(Half, F(0)), CSub(a, b))>>

\* The body of hadamard's loop on the pair (a, b) = (state[i], state[j]).
hadamard_pair(a, b) ==
    <<CMul(C64(FRAC_1_SQRT_2, F(0)), CAdd(a, b)),
      CMul(C64(FRAC_1_SQRT_2, F(0)), CSub(a, b))>>

RECURSIVE hadamard_loop(_, _, _, _)
hadamard_loop(state, dim, qubit, i) ==
    IF i >= dim THEN state
    ELSE IF BitOf(i, qubit) = 0
    THEN LET j == i + Shl(qubit)
             ab == hadamard_pair(state[i], state[j])
         IN  hadamard_loop([state EXCEPT ![i] = ab[1], ![j] = ab[2]],
                           dim, qubit, i + 1)
    ELSE hadamard_loop(state, dim, qubit, i + 1)

\* QuantumSimulator::hadamard
hadamard(self, qubit) ==
    [self EXCEPT !.state = hadamard_loop(self.state, Shl(self.n_qubits), qubit, 0)]

\* The (a, b, c, d) of random_single_gate's match on gate_type.
gate_matrix(gate_type) ==
    IF gate_type = 0
    THEN LET s == C64(Half, Half)
             t == C64(Half, FNeg(Half))
         IN  <<s, t, t, s>>
    ELSE IF gate_type = 1
    THEN LET s == C64(Half, Half)
             t == C64(FNeg(Half), FNeg(Half))
         IN  <<s, t, CNeg(t), s>>
    ELSE LET cos == C64(CosQuarterPi, F(0))
             sin_p == C64(F(0), SinQuarterPi)
             sin_m == C64(F(0), FNeg(SinQuarterPi))
         IN  <<cos, sin_m, sin_p, cos>>

\* The body of random_single_gate's loop on the pair (x, y).
gate_pair(m, x, y) ==
    <<CAdd(CMul(m[1], x), CMul(m[2], y)),
      CAdd(CMul(m[3], x), CMul(m[4], y))>>

\* The loop computing state[j] from the state[i] it has just written.
RECURSIVE gate_loop_overwritten(_, _, _, _, _)
gate_loop_overwritten(state, dim, qubit, m, i) ==
    IF i >= dim THEN state
    ELSE IF BitOf(i, qubit) = 0
    THEN LET j == i + Shl(qubit)
             x2 == CAdd(CMul(m[1], state[i]), CMul(m[2], state[j]))
             y2 == CAdd(CMul(m[3], x2), CMul(m[4], state[j]))
         IN  gate_loop_overwritten([state EXCEPT ![i] = x2, ![j] = y2],
                                   dim, qubit, m, i + 1)
    ELSE gate_loop_overwritten(state, dim, qubit, m, i + 1)

RECURSIVE gate_loop(_, _, _, _, _)
gate_loop(state, dim, qubit, m, i) ==
    IF i >= dim THEN state
    ELSE IF BitOf(i, qubit) = 0
    THEN LET j == i + Shl(qubit)
             xy == gate_pair(m, state[i], state[j])
         IN  gate_loop([state EXCEPT ![i] = xy[1], ![j] = xy[2]],
                       dim, qubit, m, i + 1)
    ELSE gate_loop(state, dim, qubit, m, i + 1)

\* QuantumSimulator::random_single_gate, gate_type being the value drawn.
random_single_gate(self, qubit, gate_type) ==
    [self EXCEPT
        !.state = gate_loop(self.state, Shl(self.n_qubits), qubit,
                            gate_matrix(gate_type), 0),
        !.rng = Advance(self.rng)]

\* The indices the loop of hadamard and of random_single_gate writes, in order:
\* i and j = i | (1 << qubit) for every i whose bit `qubit` is 0.
RECURSIVE pair_writes(_, _, _)
pair_writes(dim, qubit, i) ==
    IF i >= dim THEN <<>>
    ELSE IF BitOf(i, qubit) = 0
    THEN <<i, i + Shl(qubit)>> \o pair_writes(dim, qubit, i + 1)
    ELSE pair_writes(dim, qubit, i + 1)

\* (i & mask) == mask for mask = (1 << q1) | (1 << q2)
BothSet(i, q1, q2) == BitOf(i, q1) = 1 /\ BitOf(i, q2) = 1

\* cz negating wherever either of the two bits is set.
cz_either(self, q1, q2) ==
    [self EXCEPT !.state =
        [i \in DOMAIN self.state |->
            IF BitOf(i, q1) = 1 \/ BitOf(i, q2) = 1
            THEN CNeg(self.state[i]) ELSE self.state[i]]]

\* QuantumSimulator::cz
cz(self, q1, q2) ==
    [self EXCEPT !.state =
        [i \in DOMAIN self.state |->
            IF BothSet(i, q1, q2) THEN CNeg(self.state[i]) ELSE self.state[i]]]

\* QuantumSimulator::probabilities
probabilities(self) == [i \in DOMAIN self.state |-> norm_sqr(self.state[i])]

\* measure's loop with the test `r <= cumsum` in place of `r < cumsum`.
RECURSIVE measure_loop_meets(_, _, _, _, _)
measure_loop_meets(probs, len, r, cumsum, i) ==
    IF i >= len THEN len - 1
    ELSE LET c == FAdd(cumsum, probs[i])
         IN  IF ~FLess(c, r) THEN i
             ELSE measure_loop_meets(probs, len, r, c, i + 1)

\* measure's loop with probs.len() in place of probs.len() - 1 after the loop.
RECURSIVE measure_loop_past_end(_, _, _, _, _)
measure_loop_past_end(probs, len, r, cumsum, i) ==
    IF i >= len THEN len
    ELSE LET c == FAdd(cumsum, probs[i])
         IN  IF FLess(r, c) THEN i
             ELSE measure_loop_past_end(probs, len, r, c, i + 1)

\* The loop of measure: the first index whose running sum exceeds r, and
\* probs.len() - 1 when the loop ends without returning.
RECURSIVE measure_loop(_, _, _, _, _)
measure_loop(probs, len, r, cumsum, i) ==
    IF i >= len THEN len - 1
    ELSE LET c == FAdd(cumsum, probs[i])
         IN  IF FLess(r, c) THEN i
             ELSE measure_loop(probs, len, r, c, i + 1)

\* The index measure returns for the draw r.
measure_index(self, r) ==
    measure_loop(probabilities(self), Shl(self.n_qubits), r, F(0), 0)

\* measure collapsing the vector onto the index it returns.
measure_collapse(self, r) ==
    [self EXCEPT
        !.state = [i \in DOMAIN self.state |->
                      IF i = measure_index(self, r) THEN COne ELSE CZero],
        !.rng = Advance(self.rng)]

\* The simulator after measure: one value of the stream is consumed.
measure(self, r) == [self EXCEPT !.rng = Advance(self.rng)]

\* Sum of probabilities(), in index order.
RECURSIVE SumTo(_, _)
SumTo(probs, n) == IF n = 0 THEN F(0) ELSE FAdd(SumTo(probs, n - 1), probs[n - 1])

TotalProbability(self) == SumTo(probabilities(self), Shl(self.n_qubits))

\* ------------------------------------------------------ generate_cz_pairs

\* The loop over offset..n_qubits - 1 without step_by(2).
RECURSIVE NearestPairs_every(_, _)
NearestPairs_every(from, n_qubits) ==
    IF from >= n_qubits - 1 THEN <<>>
    ELSE <<(<<from, from + 1>>)>> \o NearestPairs_every(from + 1, n_qubits)

\* The nearest-neighbour pairs (i, i + 1), i = from, from + 2, ... < n_qubits - 1.
RECURSIVE NearestPairs(_, _)
NearestPairs(from, n_qubits) ==
    IF from >= n_qubits - 1 THEN <<>>
    ELSE <<(<<from, from + 1>>)>> \o NearestPairs(from + 2, n_qubits)

\* The long-range branch taken from four qubits on.
LongRangePairs_from_four(n_qubits, rng) ==
    IF n_qubits > 3
    THEN {<<q1, q2>> :
            q1 \in gen_range(rng, 0, n_qubits \div 2),
            q2 \in gen_range(Advance(rng), n_qubits \div 2, n_qubits)}
    ELSE {}

\* The long-range pairs the branch `n_qubits > 4 && rng.gen_bool(0.3)` may push.
LongRangePairs(n_qubits, rng) ==
    IF n_qubits > 4
    THEN {<<q1, q2>> :
            q1 \in gen_range(rng, 0, n_qubits \div 2),
            q2 \in gen_range(Advance(rng), n_qubits \div 2, n_qubits)}
    ELSE {}

\* generate_cz_pairs with the offset 0 in every layer.
generate_cz_pairs_same_offset(n_qubits, rng, layer) ==
    LET offset == 0 * layer
        near == NearestPairs(offset, n_qubits)
    IN  {near} \cup
        {Append(near, p) : p \in {x \in LongRangePairs(n_qubits, rng) : x[1] # x[2]}}

\* The pair lists generate_cz_pairs can return for a layer (n_qubits >= 1).
generate_cz_pairs(n_qubits, rng, layer) ==
    LET offset == layer % 2
        near == NearestPairs(offset, n_qubits)
    IN  {near} \cup
        {Append(near, p) : p \in {x \in LongRangePairs(n_qubits, rng) : x[1] # x[2]}}

\* ---------------------------------------------------------------- scoring

\* samples.iter().map(|&s| ideal_probs[s]).sum::<f64>()
RECURSIVE SumIdeal(_, _, _)
SumIdeal(ideal_probs, samples, acc) ==
    IF samples = <<>> THEN acc
    ELSE SumIdeal(ideal_probs, Tail(samples), FAdd(acc, ideal_probs[Head(samples)]))

\* The score without its final clamp.
xeb_score_unclamped(ideal_probs, samples, dim, n_samples) ==
    LET mean_prob == FDivCount(SumIdeal(ideal_probs, samples, F(0)), n_samples)
    IN  FSub(FMul(F(dim), mean_prob), F(1))

\* The score without the `- 1.0`.
xeb_score_no_offset(ideal_probs, samples, dim, n_samples) ==
    LET mean_prob == FDivCount(SumIdeal(ideal_probs, samples, F(0)), n_samples)
    IN  FClamp(FMul(F(dim), mean_prob), FNeg(Half), F(1))

\* The last statements of run_rcs_with_samples: mean, XEB and the clamp.
xeb_score(ideal_probs, samples, dim, n_samples) ==
    LET mean_prob == FDivCount(SumIdeal(ideal_probs, samples, F(0)), n_samples)
        xeb == FSub(FMul(F(dim), mean_prob), F(1))
    IN  FClamp(xeb, FNeg(Half), F(1))

\* ------------------------------------------------------------------ state

VARIABLES
    sim,          \* the QuantumSimulator object
    ops,          \* library use: method calls made on sim so far
    last,         \* library use: the last method call and what it returned
    pc,           \* benchmark run: the statement the run is at
    args,         \* benchmark run: depth, n_qubits, n_samples of the call
    q,            \* benchmark run: the loop variable q
    d,            \* benchmark run: the loop variable d
    pairs,        \* benchmark run: the CZ pairs of layer d still to apply
    rng,          \* benchmark run: the local rng of run_rcs_with_samples
    ideal_probs,  \* benchmark run: the local ideal_probs
    samples,      \* benchmark run: the local samples
    xeb,          \* benchmark run: the value run_rcs_with_samples returned
    result,       \* benchmark run: the RcsResult run_benchmark returned
    prev,         \* the amplitude vector an earlier run built, with its arguments
    log,          \* benchmark run: the calls the run has made on sim, in order
    gen,          \* generate_cz_pairs called layer after layer: what it returned
    cli           \* rcs_sim: the command line and what main did with it

vars == <<sim, ops, last, pc, args, q, d, pairs, rng, ideal_probs, samples,
          xeb, result, prev, log, gen, cli>>

runVars == <<pc, args, q, d, pairs, rng, ideal_probs, samples, xeb, result, prev,
             log, gen, cli>>

\* One entry of log.
Entry(op, layer, q1, q2) == [op |-> op, layer |-> layer, q1 |-> q1, q2 |-> q2]

NoGen == [n_qubits |-> 0, layer |-> 0, pairs |-> <<>>, before |-> <<>>]

\* rcs_sim before main has run: argv holds the arguments after the program
\* name, printed the score main handed to its output, saved whether the JSON
\* text was also written under results/.
NoCli == [status |-> "none", argv |-> <<>>, depth |-> 0, n_qubits |-> 0,
          samples |-> 0, printed |-> F(0), saved |-> FALSE]

NoCall == [op |-> "none", q1 |-> 0, q2 |-> 0, gate |-> 0, r |-> F(0), ret |-> 0,
           before |-> NoSim.state]

Call(op, q1, q2, gate, r, ret, before) ==
    [op |-> op, q1 |-> q1, q2 |-> q2, gate |-> gate, r |-> r, ret |-> ret,
     before |-> before]

NoResult ==
    [date |-> "", depth |-> 0, qubits |-> 0, xeb_score |-> F(0), samples |-> 0,
     runtime_ms |-> 0]

NoPrev == [valid |-> FALSE, depth |-> 0, n_qubits |-> 0, state |-> NoSim.state]

NoProbs == [i \in {} |-> F(0)]

Init ==
    /\ sim = NoSim
    /\ ops = 0
    /\ last = NoCall
    /\ pc = "idle"
    /\ args = [depth |-> 0, n_qubits |-> 0, n_samples |-> 0]
    /\ q = 0
    /\ d = 0
    /\ pairs = <<>>
    /\ rng = EntropyRng
    /\ ideal_probs = NoProbs
    /\ samples = <<>>
    /\ xeb = F(0)
    /\ result = NoResult
    /\ prev = NoPrev
    /\ log = <<>>
    /\ gen = NoGen
    /\ cli = NoCli

\* ------------------------------------- the library, called method by method

LibNew ==
    /\ ~sim.live
    /\ \E n \in 0 .. MaxQubits :
        /\ sim' = new(n)
        /\ last' = Call("new", n, 0, 0, F(0), 0, sim.state)
    /\ UNCHANGED <<ops, runVars>>

LibWithSeed ==
    /\ ~sim.live
    /\ \E n \in 0 .. MaxQubits, seed \in 0 .. MaxSeed :
        /\ sim' = with_seed(n, seed)
        /\ last' = Call("with_seed", n, seed, 0, F(0), 0, sim.state)
    /\ UNCHANGED <<ops, runVars>>

LibReset ==
    /\ sim.live
    /\ ops < MaxOps
    /\ sim' = reset(sim)
    /\ ops' = ops + 1
    /\ last' = Call("reset", 0, 0, 0, F(0), 0, sim.state)
    /\ UNCHANGED runVars

LibHadamard ==
    /\ sim.live
    /\ ops < MaxOps
    /\ \E qubit \in 0 .. (sim.n_qubits - 1) :
        /\ sim' = hadamard(sim, qubit)
        /\ last' = Call("hadamard", qubit, 0, 0, F(0), 0, sim.state)
    /\ ops' = ops + 1
    /\ UNCHANGED runVars

LibRandomSingleGate ==
    /\ sim.live
    /\ ops < MaxOps
    /\ \E qubit \in 0 .. (sim.n_qubits - 1) :
        \E gate_type \in gen_range(sim.rng, 0, 3) :
            /\ sim' = random_single_gate(sim, qubit, gate_type)
            /\ last' = Call("random_single_gate", qubit, 0, gate_type, F(0), 0,
                            sim.state)
    /\ ops' = ops + 1
    /\ UNCHANGED runVars

LibCz ==
    /\ sim.live
    /\ ops < MaxOps
    /\ \E q1 \in 0 .. (sim.n_qubits - 1), q2 \in 0 .. (sim.n_qubits - 1) :
        /\ sim' = cz(sim, q1, q2)
        /\ last' = Call("cz", q1, q2, 0, F(0), 0, sim.state)
    /\ ops' = ops + 1
    /\ UNCHANGED runVars

LibMeasure ==
    /\ sim.live
    /\ ops < MaxOps
    /\ \E r \in gen_f64(sim.rng) :
        /\ sim' = measure(sim, r)
        /\ last' = Call("measure", 0, 0, 0, r, measure_index(sim, r), sim.state)
    /\ ops' = ops + 1
    /\ UNCHANGED runVars

\* tests::test_cz_phase writes the vector of a fresh two-qubit simulator:
\* state[0] = 0, state[3] = 1.
LibTestBasis ==
    /\ sim.live
    /\ sim.n_qubits = 2
    /\ last.op \in {"new", "with_seed"}
    /\ sim' = [sim EXCEPT !.state = [@ EXCEPT ![0] = CZero, ![3] = COne]]
    /\ last' = Call("test_basis", 0, 0, 0, F(0), 0, sim.state)
    /\ UNCHANGED <<ops, runVars>>

LibNext ==
    \/ LibNew
    \/ LibWithSeed
    \/ LibReset
    \/ LibHadamard
    \/ LibRandomSingleGate
    \/ LibCz
    \/ LibMeasure
    \/ LibTestBasis

\* A program that constructs one simulator and calls its methods in any order.
SpecLib == Init /\ [][LibNext]_vars

\* --------------------------------------------- run_benchmark, step by step

\* Instant::elapsed().as_millis() as u64 is 0 or MaxElapsedMs.
MaxElapsedMs == 1

\* chrono::Utc::now().format("%Y-%m-%d")
Today == "2024-01-01"

\* run_benchmark(depth, n_qubits, n_samples) is called; run_rcs_with_samples
\* constructs the simulator and its local rng.
Start ==
    /\ pc = "idle"
    /\ \E depth \in 0 .. MaxDepth, n_qubits \in 0 .. MaxQubits,
          n_samples \in 0 .. MaxSamples :
        /\ args' = [depth |-> depth, n_qubits |-> n_qubits, n_samples |-> n_samples]
        /\ sim' = new(n_qubits)
    /\ rng' = EntropyRng
    /\ pc' = "hadamard"
    /\ q' = 0
    /\ d' = 0
    /\ pairs' = <<>>
    /\ ideal_probs' = NoProbs
    /\ samples' = <<>>
    /\ xeb' = F(0)
    /\ result' = NoResult
    /\ log' = <<>>
    /\ UNCHANGED <<ops, last, gen, cli, prev>>

\* for q in 0..n_qubits { sim.hadamard(q) }
HadamardLayer ==
    /\ pc = "hadamard"
    /\ IF q < args.n_qubits
       THEN /\ sim' = hadamard(sim, q)
            /\ q' = q + 1
            /\ pc' = pc
            /\ log' = Append(log, Entry("hadamard", 0, q, 0))
       ELSE /\ pc' = "layer"
            /\ q' = 0
            /\ sim' = sim
            /\ log' = log
    /\ UNCHANGED <<ops, last, gen, cli, args, d, pairs, rng, ideal_probs, samples, xeb,
                   result, prev>>

\* for d in 0..depth
LayerHead ==
    /\ pc = "layer"
    /\ pc' = IF d < args.depth THEN "gates" ELSE "probs"
    /\ q' = 0
    /\ UNCHANGED <<sim, ops, last, gen, cli, log, args, d, pairs, rng, ideal_probs, samples,
                   xeb, result, prev>>

\* for q in 0..n_qubits { sim.random_single_gate(q) }, then generate_cz_pairs.
\* With n_qubits = 0 the range bound n_qubits - 1 underflows: the debug build
\* panics, the release build fills the vector until allocation fails.
GateLayer ==
    /\ pc = "gates"
    /\ IF q < args.n_qubits
       THEN /\ \E gate_type \in gen_range(sim.rng, 0, 3) :
                sim' = random_single_gate(sim, q, gate_type)
            /\ q' = q + 1
            /\ pc' = pc
            /\ pairs' = pairs
            /\ log' = Append(log, Entry("gate", d, q, 0))
       ELSE /\ IF args.n_qubits = 0
               THEN pc' = "aborted" /\ pairs' = pairs
               ELSE /\ pairs' \in generate_cz_pairs(args.n_qubits, rng, d)
                    /\ pc' = "cz"
            /\ q' = q
            /\ sim' = sim
            /\ log' = log
    /\ UNCHANGED <<ops, last, gen, cli, args, d, rng, ideal_probs, samples, xeb, result,
                   prev>>

\* for (q1, q2) in pairs { sim.cz(q1, q2) }
CzLayer ==
    /\ pc = "cz"
    /\ IF pairs # <<>>
       THEN /\ sim' = cz(sim, Head(pairs)[1], Head(pairs)[2])
            /\ pairs' = Tail(pairs)
            /\ pc' = pc
            /\ d' = d
            /\ log' = Append(log, Entry("cz", d, Head(pairs)[1], Head(pairs)[2]))
       ELSE /\ d' = d + 1
            /\ pc' = "layer"
            /\ pairs' = pairs
            /\ sim' = sim
            /\ log' = log
    /\ UNCHANGED <<ops, last, gen, cli, args, q, rng, ideal_probs, samples, xeb, result,
                   prev>>

\* let ideal_probs = sim.probabilities();
ReadProbs ==
    /\ pc = "probs"
    /\ ideal_probs' = probabilities(sim)
    /\ pc' = "sample"
    /\ log' = Append(log, Entry("probabilities", 0, 0, 0))
    /\ UNCHANGED <<sim, ops, last, gen, cli, args, q, d, pairs, rng, samples, xeb, result,
                   prev>>

\* The sampling loop running over 0..=n_samples.
Sample_inclusive ==
    /\ pc = "sample"
    /\ IF Len(samples) <= args.n_samples
       THEN /\ \E r \in gen_f64(sim.rng) :
                /\ samples' = Append(samples, measure_index(sim, r))
                /\ sim' = measure(sim, r)
            /\ pc' = pc
            /\ log' = Append(log, Entry("measure", 0, 0, 0))
       ELSE /\ pc' = "score"
            /\ samples' = samples
            /\ sim' = sim
            /\ log' = log
    /\ UNCHANGED <<ops, last, gen, cli, args, q, d, pairs, rng, ideal_probs, xeb,
                   result, prev>>

\* for _ in 0..n_samples { samples.push(sim.measure()) }
Sample ==
    /\ pc = "sample"
    /\ IF Len(samples) < args.n_samples
       THEN /\ \E r \in gen_f64(sim.rng) :
                /\ samples' = Append(samples, measure_index(sim, r))
                /\ sim' = measure(sim, r)
            /\ pc' = pc
            /\ log' = Append(log, Entry("measure", 0, 0, 0))
       ELSE /\ pc' = "score"
            /\ samples' = samples
            /\ sim' = sim
            /\ log' = log
    /\ UNCHANGED <<ops, last, gen, cli, args, q, d, pairs, rng, ideal_probs, xeb, result,
                   prev>>

\* mean_prob, xeb and the clamp: run_rcs_with_samples returns.
Score ==
    /\ pc = "score"
    /\ xeb' = xeb_score(ideal_probs, samples, Shl(args.n_qubits), args.n_samples)
    /\ pc' = "returned"
    /\ log' = Append(log, Entry("score", 0, 0, 0))
    /\ UNCHANGED <<sim, ops, last, gen, cli, args, q, d, pairs, rng, ideal_probs, samples,
                   result, prev>>

\* The record with depth and qubits exchanged.
rcs_result_swapped(depth, n_qubits, n_samples, xeb_score_, runtime_ms) ==
    [date |-> Today, depth |-> n_qubits, qubits |-> depth,
     xeb_score |-> xeb_score_, samples |-> n_samples, runtime_ms |-> runtime_ms]

\* The RcsResult run_benchmark builds from the score and the elapsed time.
rcs_result(depth, n_qubits, n_samples, xeb_score_, runtime_ms) ==
    [date |-> Today, depth |-> depth, qubits |-> n_qubits,
     xeb_score |-> xeb_score_, samples |-> n_samples, runtime_ms |-> runtime_ms]

Finish ==
    /\ pc = "returned"
    /\ \E elapsed \in {0, MaxElapsedMs} :
        result' = rcs_result(args.depth, args.n_qubits, args.n_samples, xeb, elapsed)
    /\ pc' = "done"
    /\ UNCHANGED <<sim, ops, last, gen, cli, log, args, q, d, pairs, rng, ideal_probs, samples,
                   xeb, prev>>

Next ==
    \/ Start
    \/ HadamardLayer
    \/ LayerHead
    \/ GateLayer
    \/ CzLayer
    \/ ReadProbs
    \/ Sample
    \/ Score
    \/ Finish

\* One call of run_benchmark.
Spec == Init /\ [][Next]_vars

\* A caller runs the benchmark a second time, keeping the amplitude vector the
\* first run built.
RunAgain ==
    /\ pc = "done"
    /\ ~prev.valid
    /\ prev' = [valid |-> TRUE, depth |-> args.depth, n_qubits |-> args.n_qubits,
                state |-> sim.state]
    /\ pc' = "idle"
    /\ UNCHANGED <<sim, ops, last, gen, cli, log, args, q, d, pairs, rng, ideal_probs, samples,
                   xeb, result>>

NextTwice ==
    \/ Next
    \/ RunAgain

\* Two calls of run_benchmark, one after the other.
SpecTwice == Init /\ [][NextTwice]_vars

\* ------------------------------- generate_cz_pairs, called layer by layer

\* The loop `for d in 0..depth` of run_rcs_with_samples seen from its calls of
\* generate_cz_pairs: gen.layer counts the calls made, gen.pairs is what the
\* latest call (layer gen.layer - 1) returned and gen.before what the call
\* before it returned.
GenStart ==
    /\ gen = NoGen
    /\ \E n \in 1 .. MaxGenQubits :
        gen' = [n_qubits |-> n, layer |-> 0, pairs |-> <<>>, before |-> <<>>]
    /\ UNCHANGED <<sim, ops, last, pc, args, q, d, pairs, rng, ideal_probs,
                   samples, xeb, result, prev, log, cli>>

GenLayer ==
    /\ gen.n_qubits >= 1
    /\ gen.layer < MaxGenLayers
    /\ \E ps \in generate_cz_pairs(gen.n_qubits, EntropyRng, gen.layer) :
        gen' = [gen EXCEPT !.layer = @ + 1, !.pairs = ps, !.before = gen.pairs]
    /\ UNCHANGED <<sim, ops, last, pc, args, q, d, pairs, rng, ideal_probs,
                   samples, xeb, result, prev, log, cli>>

NextPairs ==
    \/ GenStart
    \/ GenLayer

SpecPairs == Init /\ [][NextPairs]_vars

\* ------------------------------------------------------------ rcs_sim main

\* if depth == 0 || depth > 50
DepthLimit == 50
\* if !(2..=20).contains(&n_qubits)
QubitLimit == 20
\* .unwrap_or(1024)
DefaultSamples == 1024

\* An argument whose text str::parse::<usize>() rejects.
Unparseable == -1

\* The argument lists main is started with: none, one, two or three arguments
\* after the program name.
DepthArgs == {Unparseable, 0, DepthLimit + 1} \cup (1 .. MaxDepth)
QubitArgs == {Unparseable, 0, 1, QubitLimit + 1} \cup (2 .. MaxQubits)
SampleArgs == {Unparseable} \cup (0 .. MaxSamples)

ArgLists ==
    {<<>>} \cup {<<a1>> : a1 \in DepthArgs}
    \cup {<<a1, a2>> : a1 \in DepthArgs, a2 \in QubitArgs}
    \cup {<<a1, a2, a3>> : a1 \in DepthArgs, a2 \in QubitArgs, a3 \in SampleArgs}

\* args.get(3).and_then(|s| s.parse().ok()).unwrap_or(1024)
parse_samples(argv) ==
    IF Len(argv) >= 3 /\ argv[3] # Unparseable THEN argv[3] ELSE DefaultSamples

\* The exits of main before the benchmark: too few arguments, depth or
\* n_qubits not a usize, depth outside 1..=50, n_qubits outside 2..=20.
main_exits(argv) ==
    \/ Len(argv) < 2
    \/ argv[1] = Unparseable
    \/ argv[2] = Unparseable
    \/ argv[1] = 0 \/ argv[1] > DepthLimit
    \/ ~(argv[2] \in 2 .. QubitLimit)

\* main up to its call of run_benchmark(depth, n_qubits, samples).  A run of
\* more than MaxSamples samples is recorded as called and not followed.
CliMain ==
    /\ cli.status = "none"
    /\ pc = "idle"
    /\ \E argv \in ArgLists :
        IF main_exits(argv)
        THEN /\ cli' = [cli EXCEPT !.status = "exit1", !.argv = argv]
             /\ UNCHANGED <<sim, pc, args, q, d, pairs, rng, ideal_probs, samples,
                            xeb, result, log>>
        ELSE LET depth == argv[1]
                 n_qubits == argv[2]
                 n_samples == parse_samples(argv)
             IN  /\ cli' = [cli EXCEPT !.status = "called", !.argv = argv,
                                       !.depth = depth, !.n_qubits = n_qubits,
                                       !.samples = n_samples]
                 /\ IF n_samples <= MaxSamples
                    THEN /\ args' = [depth |-> depth, n_qubits |-> n_qubits,
                                     n_samples |-> n_samples]
                         /\ sim' = new(n_qubits)
                         /\ pc' = "hadamard"
                    ELSE UNCHANGED <<args, sim, pc>>
                 /\ rng' = EntropyRng
                 /\ q' = 0
                 /\ d' = 0
                 /\ pairs' = <<>>
                 /\ ideal_probs' = NoProbs
                 /\ samples' = <<>>
                 /\ xeb' = F(0)
                 /\ result' = NoResult
                 /\ log' = <<>>
    /\ UNCHANGED <<ops, last, gen, prev>>

\* main after run_benchmark returned: the score goes to stderr and, inside the
\* JSON text, to stdout; the text is also written under results/ when that
\* directory exists and the write succeeds.
CliOutput ==
    /\ cli.status = "called"
    /\ pc = "done"
    /\ \E written \in BOOLEAN :
        cli' = [cli EXCEPT !.status = "exit0", !.printed = result.xeb_score,
                           !.saved = written]
    /\ UNCHANGED <<sim, ops, last, pc, args, q, d, pairs, rng, ideal_probs,
                   samples, xeb, result, prev, log, gen>>

NextCli ==
    \/ CliMain
    \/ HadamardLayer
    \/ LayerHead
    \/ GateLayer
    \/ CzLayer
    \/ ReadProbs
    \/ Sample
    \/ Score
    \/ Finish
    \/ CliOutput

\* One start of the rcs_sim binary.
SpecCli == Init /\ [][NextCli]_vars

\* ----------------------------------------------------------------- claims

Min(S) == CHOOSE x \in S : \A y \in S : x <= y

\* The amplitude vector and the draw of the last library call.
LastProbs == [i \in DOMAIN last.before |-> norm_sqr(last.before[i])]

LastLen == Cardinality(DOMAIN last.before)

\* The 2x2 matrix a pair update applies: its columns are the images of the
\* pairs (1, 0) and (0, 1).
AppliedMatrix ==
    IF last.op = "hadamard"
    THEN LET c1 == hadamard_pair(COne, CZero)
             c2 == hadamard_pair(CZero, COne)
         IN  <<c1[1], c2[1], c1[2], c2[2]>>
    ELSE LET m == gate_matrix(last.gate)
             c1 == gate_pair(m, COne, CZero)
             c2 == gate_pair(m, CZero, COne)
         IN  <<c1[1], c2[1], c1[2], c2[2]>>

CConj(x) == C64(x.re, FNeg(x.im))

\* m * conjugate-transpose(m) is the identity.
IsUnitary(m) ==
    /\ CAdd(CMul(m[1], CConj(m[1])), CMul(m[2], CConj(m[2]))) = COne
    /\ CAdd(CMul(m[3], CConj(m[3])), CMul(m[4], CConj(m[4]))) = COne
    /\ CAdd(CMul(m[1], CConj(m[3])), CMul(m[2], CConj(m[4]))) = CZero
    /\ CAdd(CMul(m[3], CConj(m[1])), CMul(m[4], CConj(m[2]))) = CZero

\* C1: on a simulator of 1..8 qubits the probabilities sum to 1 after every
\* gate application (hadamard, random_single_gate, cz) from the fresh state.
C1_Unitarity ==
    (sim.live /\ sim.n_qubits \in 1 .. 8) => TotalProbability(sim) = F(1)

\* C2: the matrix hadamard applies and the three matrices random_single_gate
\* applies are unitary.
C2_GatesUnitary ==
    (last.op \in {"hadamard", "random_single_gate"}) => IsUnitary(AppliedMatrix)

\* The mean of the ideal probabilities of the samples, summed from the last
\* sample to the first.
RECURSIVE IdealSum(_, _, _)
IdealSum(probs, seq, k) ==
    IF k = 0 THEN F(0) ELSE FAdd(probs[seq[k]], IdealSum(probs, seq, k - 1))

MeanIdeal(probs, seq) == FDivCount(IdealSum(probs, seq, Len(seq)), Len(seq))

RunReturned == pc \in {"returned", "done"}

\* C3: run_rcs_with_samples returns clamp(2^N * meanP - 1, -0.5, 1.0), meanP
\* being the mean over the n_samples samples of the probability, in the
\* distribution of the state the circuit built, of each sampled index.
C3_XebFormula ==
    (pc = "returned") =>
        /\ Len(samples) = args.n_samples
        /\ ideal_probs = probabilities(sim)
        /\ xeb = FClamp(FSub(FMul(F(2 ^ args.n_qubits), MeanIdeal(ideal_probs, samples)),
                             F(1)),
                        <<-1, 0, 2>>, <<1, 0, 1>>)

\* A run whose unclamped score lies above 1 has returned.
C3_Witness ==
    /\ pc = "returned"
    /\ args.n_samples >= 2
    /\ FLess(F(1), FSub(FMul(F(2 ^ args.n_qubits),
                             MeanIdeal(probabilities(sim), samples)), F(1)))

InArgRange ==
    /\ args.depth \in 1 .. 50
    /\ args.n_qubits \in 2 .. 20
    /\ args.n_samples >= 1

\* C4: for depth in 1..50, 2..20 qubits and at least one sample, the record
\* run_benchmark returns carries the three arguments, a score that is not NaN
\* and lies in [-0.5, 1.0], and a runtime >= 0.
C4_ResultRecord ==
    (pc = "done" /\ InArgRange) =>
        /\ result.depth = args.depth
        /\ result.qubits = args.n_qubits
        /\ result.samples = args.n_samples
        /\ ~IsNaN(result.xeb_score)
        /\ ~FLess(result.xeb_score, <<-1, 0, 2>>)
        /\ ~FLess(F(1), result.xeb_score)
        /\ result.runtime_ms >= 0

\* run_benchmark has returned for arguments in range, after a circuit that
\* did not keep the probabilities summing to 1.
C4_Witness ==
    /\ pc = "done"
    /\ InArgRange
    /\ TotalProbability(sim) # F(1)

\* The running sum of measure after it has added the probability of index i.
CumSum(probs, i) == SumTo(probs, i + 1)

\* C5 as stated: measure returns the first index whose running sum is >= r,
\* and the last index only when there is none.
C5_FirstIndexMeetsOrExceeds ==
    (last.op = "measure") =>
        LET hit == {i \in 0 .. (LastLen - 1) : ~FLess(CumSum(LastProbs, i), last.r)}
        IN  last.ret = IF hit = {} THEN LastLen - 1 ELSE Min(hit)

\* C5, amended: measure returns the first index whose running sum is > r, and
\* the last index only when there is none.
C5_FirstIndexExceeds ==
    (last.op = "measure") =>
        LET hit == {i \in 0 .. (LastLen - 1) : FLess(last.r, CumSum(LastProbs, i))}
        IN  last.ret = IF hit = {} THEN LastLen - 1 ELSE Min(hit)

\* measure passed over an index whose running sum equalled the draw.
C5_Witness ==
    /\ last.op = "measure"
    /\ \E i \in 0 .. (LastLen - 1) :
        /\ i < last.ret
        /\ CumSum(LastProbs, i) = last.r
    /\ FLess(last.r, CumSum(LastProbs, last.ret))

\* C6: measure returns an index in [0, 2^N - 1] for every amplitude vector
\* and every draw; when the total probability does not exceed the draw (a
\* vector of mass 0 included) it returns the last index 2^N - 1.
C6_MeasureInRange ==
    (last.op = "measure") =>
        /\ last.ret \in 0 .. (2 ^ sim.n_qubits - 1)
        /\ (~FLess(last.r, SumTo(LastProbs, LastLen))) => last.ret = 2 ^ sim.n_qubits - 1

\* measure was called on a vector of mass 0 with more than one entry.
C6_Witness ==
    /\ last.op = "measure"
    /\ sim.n_qubits >= 1
    /\ SumTo(LastProbs, LastLen) = F(0)
    /\ last.ret = 2 ^ sim.n_qubits - 1

\* C7: no step of the sampling loop changes the amplitude vector, and every
\* sample is drawn from the distribution held in ideal_probs.
C7_SamplingKeepsState ==
    [][(pc = "sample") =>
        /\ sim'.state = sim.state
        /\ probabilities(sim) = ideal_probs
        /\ probabilities(sim') = ideal_probs]_vars

\* Two samples were drawn from a distribution that is not uniform.
C7_Witness ==
    /\ pc = "sample"
    /\ Len(samples) >= 2
    /\ \E i, j \in DOMAIN ideal_probs : ideal_probs[i] # ideal_probs[j]
    /\ samples[1] # samples[2]

\* C8: two runs with the same depth and qubit count (run_benchmark takes no
\* seed, so the seed cannot differ) hold the same amplitude vector once the
\* circuit is built.
C8_SameCircuitTwice ==
    (/\ pc = "probs"
     /\ prev.valid
     /\ prev.depth = args.depth
     /\ prev.n_qubits = args.n_qubits) => sim.state = prev.state

\* C9: when every sampled outcome has ideal probability 1 / 2^N, the score is 0.
C9_UniformScoresZero ==
    (/\ RunReturned
     /\ args.n_samples >= 1
     /\ \A k \in 1 .. Len(samples) :
            ideal_probs[samples[k]] = <<1, 0, 2 ^ args.n_qubits>>) => xeb = F(0)

\* A run on two qubits returned after sampling two different outcomes, each of
\* ideal probability 1/4.
C9_Witness ==
    /\ RunReturned
    /\ args.n_qubits = 2
    /\ Len(samples) = 2
    /\ samples[1] # samples[2]
    /\ \A k \in 1 .. 2 : ideal_probs[samples[k]] = <<1, 0, 4>>
    /\ xeb = F(0)

\* C10: no simulator of 0 qubits comes out of new or with_seed.
C10_CreateZeroFails ==
    (last.op \in {"new", "with_seed"} /\ last.q1 = 0) => ~sim.live

\* C11: after reset the amplitude vector is that of a freshly created
\* simulator of the same qubit count: length 2^N, 1 at index 0, 0 elsewhere.
C11_ResetIsFresh ==
    (last.op = "reset") =>
        /\ DOMAIN sim.state = 0 .. (2 ^ sim.n_qubits - 1)
        /\ DOMAIN sim.state = DOMAIN last.before
        /\ sim.state = new(sim.n_qubits).state
        /\ \A i \in DOMAIN sim.state : sim.state[i] = IF i = 0 THEN COne ELSE CZero

\* reset was called on a vector that gates had moved away from the fresh one.
C11_Witness ==
    /\ last.op = "reset"
    /\ sim.n_qubits >= 1
    /\ last.before[0] # COne
    /\ \E i \in DOMAIN last.before : i # 0 /\ last.before[i] # CZero

\* C12: hadamard and random_single_gate on qubit q < N replace each pair
\* (state[i], state[j]), bit q of i clear and j = i with bit q set, by
\* (m00*a + m01*b, m10*a + m11*b) of the values a, b held before the call;
\* every index is written exactly once and none lies outside [0, 2^N).
C12_PairUpdate ==
    (last.op \in {"hadamard", "random_single_gate"}) =>
        LET m == AppliedMatrix
            dim == 2 ^ sim.n_qubits
            w == pair_writes(dim, last.q1, 0)
        IN  /\ last.q1 < sim.n_qubits
            /\ \A i \in 0 .. (dim - 1) :
                (i \div 2 ^ last.q1) % 2 = 0 =>
                    LET j == i + 2 ^ last.q1
                        a == last.before[i]
                        b == last.before[j]
                    IN  /\ sim.state[i] = CAdd(CMul(m[1], a), CMul(m[2], b))
                        /\ sim.state[j] = CAdd(CMul(m[3], a), CMul(m[4], b))
            /\ \A i \in 0 .. (dim - 1) :
                Cardinality({k \in 1 .. Len(w) : w[k] = i}) = 1
            /\ \A k \in 1 .. Len(w) : w[k] \in 0 .. (dim - 1)

\* A gate was applied to qubit 1 of a two-qubit vector with more than one
\* non-zero amplitude, and changed it.
C12_Witness ==
    /\ last.op \in {"hadamard", "random_single_gate"}
    /\ sim.n_qubits = 2
    /\ last.q1 = 1
    /\ Cardinality({i \in DOMAIN last.before : last.before[i] # CZero}) >= 2
    /\ sim.state # last.before

\* C13: cz(q1, q2) negates the amplitude of exactly the indices whose bits q1
\* and q2 are both 1 and leaves the others, and every probability, unchanged;
\* on two qubits, from amplitude 1 at index 3, cz(0, 1) leaves -1 at index 3
\* and 0 at indices 0, 1, 2.
C13_CzPhase ==
    (last.op = "cz") =>
        LET both == {i \in DOMAIN sim.state :
                        /\ (i \div 2 ^ last.q1) % 2 = 1
                        /\ (i \div 2 ^ last.q2) % 2 = 1}
        IN  /\ \A i \in both : sim.state[i] = CNeg(last.before[i])
            /\ \A i \in DOMAIN sim.state \ both : sim.state[i] = last.before[i]
            /\ probabilities(sim) = LastProbs
            /\ (/\ sim.n_qubits = 2
                /\ {last.q1, last.q2} = {0, 1}
                /\ last.before = [i \in 0 .. 3 |-> IF i = 3 THEN COne ELSE CZero])
               => sim.state = [i \in 0 .. 3 |->
                                IF i = 3 THEN C64(F(-1), F(0)) ELSE CZero]

\* cz(0, 1) or cz(1, 0) was applied to the two-qubit vector with amplitude 1
\* at index 3.
C13_Witness ==
    /\ last.op = "cz"
    /\ sim.n_qubits = 2
    /\ {last.q1, last.q2} = {0, 1}
    /\ last.before = [i \in 0 .. 3 |-> IF i = 3 THEN COne ELSE CZero]
    /\ sim.state[3] = C64(F(-1), F(0))

Uniform(probs, n_qubits) ==
    \A i \in DOMAIN probs : probs[i] = <<1, 0, 2 ^ n_qubits>>

\* C14: hadamard applied once to each qubit of a fresh N-qubit vector gives
\* probability 1 / 2^N to every basis state; a run of depth 0 therefore has a
\* uniform ideal distribution and, with at least one sample, the score 0.
C14_HadamardLayerUniform ==
    /\ (pc = "layer" /\ d = 0) =>
        /\ DOMAIN sim.state = 0 .. (2 ^ args.n_qubits - 1)
        /\ Uniform(probabilities(sim), args.n_qubits)
    /\ (pc = "returned" /\ args.depth = 0) =>
        /\ Uniform(ideal_probs, args.n_qubits)
        /\ args.n_samples >= 1 => xeb = F(0)

\* A run of depth 0 on two qubits returned the score 0 for two samples over
\* four probabilities of 1/4.
C14_Witness ==
    /\ pc = "returned"
    /\ args.depth = 0
    /\ args.n_qubits = 2
    /\ args.n_samples = 2
    /\ ideal_probs = [i \in 0 .. 3 |-> <<1, 0, 4>>]
    /\ xeb = F(0)

\* The calls a complete run makes, the CZ calls of each layer taken from log.
CzOfLayer(layer) ==
    LET IsCz(e) == e.op = "cz" /\ e.layer = layer
    IN  SelectSeq(log, IsCz)

RECURSIVE LayersFrom(_)
LayersFrom(layer) ==
    IF layer >= args.depth THEN <<>>
    ELSE [k \in 1 .. args.n_qubits |-> Entry("gate", layer, k - 1, 0)]
         \o CzOfLayer(layer) \o LayersFrom(layer + 1)

ExpectedLog ==
    [k \in 1 .. args.n_qubits |-> Entry("hadamard", 0, k - 1, 0)]
    \o LayersFrom(0)
    \o <<Entry("probabilities", 0, 0, 0)>>
    \o [k \in 1 .. args.n_samples |-> Entry("measure", 0, 0, 0)]
    \o <<Entry("score", 0, 0, 0)>>

\* C15: a run that has returned made its calls in this order: hadamard on
\* qubits 0..N-1 once each; for each layer 0..depth-1 in increasing order one
\* random gate on each qubit 0..N-1 and then the CZ calls of that layer; one
\* read of the distribution; n_samples measurements; the score.  Before the
\* return the calls made so far are a prefix of that order.
C15_PipelineOrder ==
    /\ (pc = "returned") => log = ExpectedLog
    /\ (pc \in {"sample", "score"}) =>
        /\ Len(log) >= 1
        /\ \A k \in 1 .. Len(log) :
            (log[k].op = "probabilities") =>
                \A j \in (k + 1) .. Len(log) : log[j].op = "measure"
        /\ Cardinality({k \in 1 .. Len(log) : log[k].op = "probabilities"}) = 1

\* A run of two layers on two qubits with two samples returned; its first
\* layer applied a CZ.
C15_Witness ==
    /\ pc = "returned"
    /\ args.depth = 2
    /\ args.n_qubits = 2
    /\ args.n_samples = 2
    /\ Len(CzOfLayer(0)) = 1

\* The layer index of the latest call of generate_cz_pairs.
GenLayerIndex == gen.layer - 1

\* The number of i in 0 .. n_qubits - 2 of the parity of the layer.
NearCount(n_qubits, layer) ==
    Cardinality({i \in 0 .. (n_qubits - 2) : i % 2 = layer % 2})

\* The nearest-neighbour pairs at the head of a returned list.
NearPart(ps, n_qubits, layer) ==
    LET K == NearCount(n_qubits, layer)
    IN  SubSeq(ps, 1, IF Len(ps) < K THEN Len(ps) ELSE K)

Disjoint(p1, p2) == {p1[1], p1[2]} \cap {p2[1], p2[2]} = {}

\* C16: for layer d and N >= 2 qubits the nearest-neighbour pairs returned
\* are exactly (i, i + 1) for i = d mod 2, d mod 2 + 2, ... with i + 1 <= N - 1,
\* in that order; they are pairwise disjoint and their qubits lie in 0 .. N - 1.
C16_NearestNeighbourPairs ==
    (gen.layer >= 1 /\ gen.n_qubits >= 2) =>
        LET n == gen.n_qubits
            o == GenLayerIndex % 2
            K == NearCount(n, GenLayerIndex)
            near == NearPart(gen.pairs, n, GenLayerIndex)
        IN  /\ Len(gen.pairs) >= K
            /\ Len(near) = K
            /\ \A k \in 1 .. K : near[k] = <<o + 2 * (k - 1), o + 2 * (k - 1) + 1>>
            /\ \A j, k \in 1 .. K : j # k => Disjoint(near[j], near[k])
            /\ \A k \in 1 .. K : near[k][1] \in 0 .. (n - 1) /\ near[k][2] \in 0 .. (n - 1)
            /\ \A i \in 0 .. (n - 2) :
                (i % 2 = o) => \E k \in 1 .. K : near[k] = <<i, i + 1>>

\* An odd layer on five qubits returned the pairs (1, 2) and (3, 4).
C16_Witness ==
    /\ gen.n_qubits = 5
    /\ gen.layer = 2
    /\ gen.pairs = <<(<<1, 2>>), (<<3, 4>>)>>

\* C17: a layer gets at most one long-range pair, and none for N <= 4; its
\* first qubit lies in 0 .. N/2 - 1 and its second in N/2 .. N - 1, so the two
\* differ and both are qubit indices.
C17_LongRangePair ==
    (gen.layer >= 1) =>
        LET n == gen.n_qubits
            K == NearCount(n, GenLayerIndex)
        IN  /\ Len(gen.pairs) \in {K, K + 1}
            /\ (n <= 4) => Len(gen.pairs) = K
            /\ (Len(gen.pairs) = K + 1) =>
                /\ n > 4
                /\ gen.pairs[K + 1][1] \in 0 .. ((n \div 2) - 1)
                /\ gen.pairs[K + 1][2] \in (n \div 2) .. (n - 1)
                /\ gen.pairs[K + 1][1] # gen.pairs[K + 1][2]

\* A layer on five qubits got the long-range pair (0, 4) after its two
\* nearest-neighbour pairs.
C17_Witness ==
    /\ gen.n_qubits = 5
    /\ gen.layer >= 1
    /\ Len(gen.pairs) = 3
    /\ gen.pairs[3] = <<0, 4>>

\* How often a pair occurs in a list.
Occurrences(ps, p) == Cardinality({k \in 1 .. Len(ps) : ps[k] = p})

\* C19: over two consecutive layers on N >= 2 qubits the nearest-neighbour
\* pairs hold every adjacent pair (i, i + 1), 0 <= i <= N - 2, exactly once:
\* even i in the even layer and odd i in the odd layer.
C19_ConsecutiveLayersCover ==
    (gen.layer >= 2 /\ gen.n_qubits >= 2) =>
        LET n == gen.n_qubits
            cur == NearPart(gen.pairs, n, GenLayerIndex)
            old == NearPart(gen.before, n, GenLayerIndex - 1)
        IN  \A i \in 0 .. (n - 2) :
                /\ Occurrences(cur, <<i, i + 1>>) + Occurrences(old, <<i, i + 1>>) = 1
                /\ Occurrences(cur, <<i, i + 1>>) = 1 <=> (i % 2 = GenLayerIndex % 2)

\* Layers 1 and 2 on four qubits returned (1, 2) and then (0, 1), (2, 3).
C19_Witness ==
    /\ gen.n_qubits = 4
    /\ gen.layer = 3
    /\ gen.before = <<(<<1, 2>>)>>
    /\ gen.pairs = <<(<<0, 1>>), (<<2, 3>>)>>

\* C20: no pair occurs twice in the list of one layer: the long-range pair
\* differs from every nearest-neighbour pair of its layer.
C20_NoPairTwice ==
    (gen.layer >= 1) =>
        \A j, k \in 1 .. Len(gen.pairs) : j # k => gen.pairs[j] # gen.pairs[k]

\* C18: main calls run_benchmark only with 1 <= depth <= 50, 2 <= n_qubits <= 20
\* and samples >= 1; on every other argument list it exits with status 1 and
\* runs nothing; the score it prints or saves is never NaN.
C18_CliValidates ==
    /\ (cli.status \in {"called", "exit0"}) =>
        /\ cli.depth \in 1 .. DepthLimit
        /\ cli.n_qubits \in 2 .. QubitLimit
        /\ cli.samples >= 1
    /\ (cli.status = "exit1") => (pc = "idle" /\ log = <<>>)
    /\ (cli.status = "exit0") => ~IsNaN(cli.printed)

====
